---- MODULE Spec2Model ----
(***************************************************************************)
(* Model of the stock-accuracy engine of Analise.py: the class             *)
(* SistemaControleEstoque (catalog and physical stores, reconciliation,    *)
(* cyclic counts, accuracy metrics) and the sidebar handlers that drive    *)
(* it.  The session state of Streamlit is the state of the model.          *)
(*                                                                         *)
(* Conventions.                                                            *)
(*  - A Python str is a sequence of one-character strings, so that         *)
(*    str.strip() is computed and not assumed.                             *)
(*  - A spreadsheet cell that must be numeric is [num, v]: num says        *)
(*    whether int()/float() accepts the cell, v is the number it yields.   *)
(*  - Python floats are modelled as exact numbers; a quotient is kept as   *)
(*    a reduced fraction <<numerator, denominator>>.                       *)
(*  - 'timestamp' (datetime.now()) and 'ultima_contagem' (a random date)   *)
(*    are written but never read by the engine and are left out.           *)
(***************************************************************************)
EXTENDS Integers, Sequences, FiniteSets, TLC

VARIABLES
    estoque_sistema,     \* st.session_state.estoque_sistema : codigo -> record
    estoque_fisico,      \* st.session_state.estoque_fisico  : codigo -> int
    movimentacoes,       \* st.session_state.movimentacoes
    divergencias,        \* st.session_state.divergencias
    contagens_ciclicas,  \* st.session_state.contagens_ciclicas
    dados_carregados,    \* st.session_state.dados_carregados
    op,                  \* the last operation run and its arguments
    retorno,             \* what the last operation returned / reported
    metricas_ant,        \* result of the latest calcular_acuracidade call
    intervenientes,      \* operations run since that call
    simulacao            \* the locals of a gerar_dados_simulacao call

vars == <<estoque_sistema, estoque_fisico, movimentacoes, divergencias,
          contagens_ciclicas, dados_carregados, op, retorno,
          metricas_ant, intervenientes, simulacao>>

estado == <<estoque_sistema, estoque_fisico, movimentacoes, divergencias,
            contagens_ciclicas, dados_carregados>>

\* Largest number of cyclic counts kept in the ledger between two resets.
MaxContagens == 2

\* Largest number of days a projection is asked for.
MaxDias == 30

----------------------------------------------------------------------------
\* Generic helpers

Abs(n) == IF n < 0 THEN -n ELSE n

RECURSIVE Gcd(_, _)
Gcd(a, b) == IF b = 0 THEN a ELSE Gcd(b, a % b)

\* The exact value n/d (d > 0) as a reduced fraction.
Frac(n, d) == LET g == Gcd(Abs(n), d) IN <<n \div g, d \div g>>

Vazio == [x \in {} |-> 0]

Put(f, k, v) == [x \in (DOMAIN f) \cup {k} |-> IF x = k THEN v ELSE f[x]]

Range(s) == {s[i] : i \in DOMAIN s}

\* All orders in which the elements of a finite set S can be enumerated.
Ordens(S) == {s \in [1..Cardinality(S) -> S] : Range(s) = S}

RECURSIVE SomaSeq(_)
SomaSeq(s) == IF s = <<>> THEN 0 ELSE Head(s) + SomaSeq(Tail(s))

RECURSIVE SomaValores(_, _)
SomaValores(f, S) ==
    IF S = {} THEN 0
    ELSE LET k == CHOOSE x \in S : TRUE IN f[k] + SomaValores(f, S \ {k})

----------------------------------------------------------------------------
\* str.strip()

Brancos == {" ", "\t", "\n"}

RECURSIVE LStrip(_)
LStrip(s) == IF s # <<>> /\ Head(s) \in Brancos THEN LStrip(Tail(s)) ELSE s

RECURSIVE RStrip(_)
RStrip(s) ==
    IF s # <<>> /\ s[Len(s)] \in Brancos
    THEN RStrip(SubSeq(s, 1, Len(s) - 1))
    ELSE s

Strip(s) == RStrip(LStrip(s))

----------------------------------------------------------------------------
\* Spreadsheets offered to the two loaders

A001 == <<"A", "0", "0", "1">>
B001 == <<"B", "0", "0", "1">>
C001 == <<"C", "0", "0", "1">>
D001 == <<"D", "0", "0", "1">>

Num(n) == [num |-> TRUE, v |-> n]
Texto == [num |-> FALSE, v |-> 0]

ColunasSistema == <<"codigo", "nome", "categoria", "quantidade", "valor_unitario">>
ColunasFisico == <<"codigo", "quantidade_fisica">>

LinhaS(c, n, cat, q, vu) ==
    [codigo |-> c, nome |-> n, categoria |-> cat, quantidade |-> q,
     valor_unitario |-> vu]

LinhaF(c, q) == [codigo |-> c, quantidade_fisica |-> q]

\* Each spreadsheet: whether read_excel can read it, its columns, its rows.

\* Three products; codes and names padded with blanks.
SistemaBase ==
    [legivel |-> TRUE, colunas |-> Range(ColunasSistema), linhas |-> <<
        LinhaS(<<" ">> \o A001 \o <<" ">>, <<"T", "V", " ">>, <<"E">>, Num(150), Num(1200)),
        LinhaS(B001, <<"P", "C">>, <<"I">>, Num(0), Num(10)),
        LinhaS(C001, <<"G", "E">>, <<"E">>, Num(10), Num(3000)) >>]

\* A revised catalog: A001 twice (the later row wins), no B001.
SistemaRevisado ==
    [legivel |-> TRUE, colunas |-> Range(ColunasSistema), linhas |-> <<
        LinhaS(A001, <<"T", "V">>, <<"E">>, Num(150), Num(1200)),
        LinhaS(C001, <<"G", "E">>, <<"E">>, Num(10), Num(3000)),
        LinhaS(A001, <<"T", "V">>, <<"E">>, Num(145), Num(1000)) >>]

\* A required column is missing.
SistemaSemColuna ==
    [legivel |-> TRUE, colunas |-> Range(ColunasSistema) \ {"valor_unitario"},
     linhas |-> << LinhaS(A001, <<"T", "V">>, <<"E">>, Num(150), Num(1200)) >>]

\* The second row has a quantity that is not a number.
SistemaCelulaInvalida ==
    [legivel |-> TRUE, colunas |-> Range(ColunasSistema), linhas |-> <<
        LinhaS(C001, <<"G", "E">>, <<"E">>, Num(10), Num(3000)),
        LinhaS(A001, <<"T", "V">>, <<"E">>, Texto, Num(1200)) >>]

\* No rows at all.
SistemaVazio ==
    [legivel |-> TRUE, colunas |-> Range(ColunasSistema), linhas |-> << >>]

\* Not a spreadsheet.
ArquivoIlegivel == [legivel |-> FALSE, colunas |-> {}, linhas |-> << >>]

PlanilhasSistema ==
    {SistemaBase, SistemaRevisado, SistemaSemColuna, SistemaCelulaInvalida,
     SistemaVazio, ArquivoIlegivel}

\* Every product counted, and one code that no catalog knows.
FisicoCompleto ==
    [legivel |-> TRUE, colunas |-> Range(ColunasFisico), linhas |-> <<
        LinhaF(A001, Num(145)),
        LinhaF(B001 \o <<" ">>, Num(5)),
        LinhaF(D001, Num(7)),
        LinhaF(C001, Num(12)) >>]

\* A recount that agrees with SistemaBase for A001 and C001.
FisicoRecontado ==
    [legivel |-> TRUE, colunas |-> Range(ColunasFisico), linhas |-> <<
        LinhaF(A001, Num(150)),
        LinhaF(C001, Num(10)) >>]

\* A required column is missing.
FisicoSemColuna ==
    [legivel |-> TRUE, colunas |-> {"codigo"}, linhas |-> <<
        LinhaF(A001, Num(145)) >>]

\* The second row has a quantity that is not a number.
FisicoCelulaInvalida ==
    [legivel |-> TRUE, colunas |-> Range(ColunasFisico), linhas |-> <<
        LinhaF(A001, Num(145)),
        LinhaF(C001, Texto) >>]

PlanilhasFisico ==
    {FisicoCompleto, FisicoRecontado, FisicoSemColuna, FisicoCelulaInvalida,
     ArquivoIlegivel}

\* Codes a caller may ask a cyclic count for.
CodigosConsulta == {A001, B001, C001, D001}

----------------------------------------------------------------------------
\* _validar_colunas: the required columns that the sheet lacks, in order

ColunasFaltantes(colunas, obrigatorias) ==
    SelectSeq(obrigatorias, LAMBDA col : col \notin colunas)

_validar_colunas(colunas, obrigatorias) ==
    ColunasFaltantes(colunas, obrigatorias) = <<>>

----------------------------------------------------------------------------
\* carregar_planilha_sistema

\* Variant: the loader forgets to empty the catalog before the row loop.
InicioCargaSemLimpar(antigo) == antigo

\* The store the row loop starts from: the catalog is emptied first.
InicioCargaSistema(antigo) == Vazio

\* The row loop.  A cell that int()/float() rejects raises: the rows before
\* it stay loaded and the loader reports failure.
RECURSIVE CarregarLinhasSistema(_, _)
CarregarLinhasSistema(linhas, acc) ==
    IF linhas = <<>> THEN [estoque |-> acc, ok |-> TRUE]
    ELSE LET row == Head(linhas) IN
         IF ~row.quantidade.num \/ ~row.valor_unitario.num
         THEN [estoque |-> acc, ok |-> FALSE]
         ELSE CarregarLinhasSistema(Tail(linhas),
                  Put(acc, Strip(row.codigo),
                      [quantidade |-> row.quantidade.v,
                       nome |-> Strip(row.nome),
                       categoria |-> Strip(row.categoria),
                       valor_unitario |-> row.valor_unitario.v]))

\* The whole method on catalog 'antigo': the store it leaves and what it
\* reports (ok, number of products announced, missing columns named).
CargaSistema(arquivo, antigo) ==
    IF ~arquivo.legivel
    THEN [estoque |-> antigo, ok |-> FALSE, carregados |-> 0, faltantes |-> <<>>]
    ELSE IF ~_validar_colunas(arquivo.colunas, ColunasSistema)
    THEN [estoque |-> antigo, ok |-> FALSE, carregados |-> 0,
          faltantes |-> ColunasFaltantes(arquivo.colunas, ColunasSistema)]
    ELSE LET r == CarregarLinhasSistema(arquivo.linhas, InicioCargaSistema(antigo)) IN
         [estoque |-> r.estoque, ok |-> r.ok,
          carregados |-> IF r.ok THEN Cardinality(DOMAIN r.estoque) ELSE 0,
          faltantes |-> <<>>]

----------------------------------------------------------------------------
\* carregar_planilha_fisico

\* The row loop: a row whose code is in the catalog is stored, any other
\* code is collected; the quantity of an unknown code is never converted.
RECURSIVE CarregarLinhasFisico(_, _, _, _)
CarregarLinhasFisico(linhas, sistema, acc, desconhecidos) ==
    IF linhas = <<>>
    THEN [estoque |-> acc, ok |-> TRUE, nao_encontrados |-> desconhecidos]
    ELSE LET row == Head(linhas)
             codigo == Strip(row.codigo) IN
         IF codigo \in DOMAIN sistema
         THEN IF ~row.quantidade_fisica.num
              THEN [estoque |-> acc, ok |-> FALSE, nao_encontrados |-> desconhecidos]
              ELSE CarregarLinhasFisico(Tail(linhas), sistema,
                       Put(acc, codigo, row.quantidade_fisica.v), desconhecidos)
         ELSE CarregarLinhasFisico(Tail(linhas), sistema, acc,
                  Append(desconhecidos, codigo))

\* Variant: the loader forgets to empty the physical store before the loop.
InicioCargaFisicoSemLimpar(antigo) == antigo

\* The store the row loop starts from: the physical store is emptied first.
InicioCargaFisico(antigo) == Vazio

CargaFisico(arquivo, sistema, antigo) ==
    IF ~arquivo.legivel
    THEN [estoque |-> antigo, ok |-> FALSE, carregados |-> 0,
          nao_encontrados |-> <<>>, faltantes |-> <<>>]
    ELSE IF ~_validar_colunas(arquivo.colunas, ColunasFisico)
    THEN [estoque |-> antigo, ok |-> FALSE, carregados |-> 0,
          nao_encontrados |-> <<>>,
          faltantes |-> ColunasFaltantes(arquivo.colunas, ColunasFisico)]
    ELSE LET r == CarregarLinhasFisico(arquivo.linhas, sistema,
                                       InicioCargaFisico(antigo), <<>>) IN
         [estoque |-> r.estoque, ok |-> r.ok,
          carregados |-> IF r.ok THEN Cardinality(DOMAIN r.estoque) ELSE 0,
          nao_encontrados |-> IF r.ok THEN r.nao_encontrados ELSE <<>>,
          faltantes |-> <<>>]

----------------------------------------------------------------------------
\* _obter_produtos_comuns and obter_produtos_divergentes

_obter_produtos_comuns == (DOMAIN estoque_sistema) \cap (DOMAIN estoque_fisico)

\* Variant: only a surplus counts as a divergence.
TemDivergenciaSoSobra(divergencia) == divergencia > 0

\* The test that puts a product in the divergence list.
TemDivergencia(divergencia) == divergencia # 0

ProdutoDivergente(codigo) ==
    LET qtd_sistema == estoque_sistema[codigo].quantidade
        qtd_fisica == estoque_fisico[codigo]
        divergencia == qtd_fisica - qtd_sistema
        produto_info == estoque_sistema[codigo] IN
    [codigo |-> codigo,
     nome |-> produto_info.nome,
     categoria |-> produto_info.categoria,
     qtd_sistema |-> qtd_sistema,
     qtd_fisica |-> qtd_fisica,
     divergencia_unidades |-> divergencia,
     divergencia_percentual |->
         IF qtd_sistema > 0 THEN Frac(divergencia * 100, qtd_sistema) ELSE <<0, 1>>,
     valor_unitario |-> produto_info.valor_unitario,
     valor_divergencia |-> Abs(divergencia) * produto_info.valor_unitario,
     tipo |-> IF divergencia > 0 THEN "Sobra" ELSE "Falta"]

\* Variant: a descending sort that puts x before the elements of equal key
\* (what reversing an ascending sort does).
InserirAntesDosIguais(ordenada, x) ==
    LET antes == SelectSeq(ordenada,
                     LAMBDA y : Abs(y.valor_divergencia) > Abs(x.valor_divergencia))
        depois == SelectSeq(ordenada,
                     LAMBDA y : Abs(y.valor_divergencia) <= Abs(x.valor_divergencia)) IN
    antes \o <<x>> \o depois

\* sorted(..., key=abs(valor_divergencia), reverse=True): a stable sort, so
\* x goes after every element whose key is not smaller than its own.
InserirPorValor(ordenada, x) ==
    LET antes == SelectSeq(ordenada,
                     LAMBDA y : Abs(y.valor_divergencia) >= Abs(x.valor_divergencia))
        depois == SelectSeq(ordenada,
                     LAMBDA y : Abs(y.valor_divergencia) < Abs(x.valor_divergencia)) IN
    antes \o <<x>> \o depois

RECURSIVE OrdenarPorValor(_)
OrdenarPorValor(lista) ==
    IF lista = <<>> THEN <<>>
    ELSE InserirPorValor(OrdenarPorValor(SubSeq(lista, 1, Len(lista) - 1)),
                         lista[Len(lista)])

\* The list built by the loop over the common products, visited in 'ordem'
\* (the iteration order of a Python set is not fixed by the program).
RECURSIVE ListarDivergentes(_)
ListarDivergentes(ordem) ==
    IF ordem = <<>> THEN <<>>
    ELSE LET codigo == ordem[Len(ordem)]
             resto == ListarDivergentes(SubSeq(ordem, 1, Len(ordem) - 1)) IN
         IF TemDivergencia(estoque_fisico[codigo] - estoque_sistema[codigo].quantidade)
         THEN Append(resto, ProdutoDivergente(codigo))
         ELSE resto

obter_produtos_divergentes(ordem) ==
    IF DOMAIN estoque_sistema = {} \/ DOMAIN estoque_fisico = {}
    THEN <<>>
    ELSE OrdenarPorValor(ListarDivergentes(ordem))

----------------------------------------------------------------------------
\* realizar_contagem_ciclica

ErroNaoEncontrado == [erro |-> "Produto nao encontrado em ambos os estoques"]

Encontrado(codigo) ==
    codigo \in DOMAIN estoque_sistema /\ codigo \in DOMAIN estoque_fisico

\* Variant: the value keeps the sign of the divergence.
ValorDivergenciaComSinal(divergencia, valor_unitario) == divergencia * valor_unitario

ValorDivergencia(divergencia, valor_unitario) == Abs(divergencia) * valor_unitario

\* Variant: a surplus is not flagged.
StatusSoFalta(divergencia) == IF divergencia < 0 THEN "DIVERGENTE" ELSE "OK"

StatusContagem(divergencia) == IF divergencia = 0 THEN "OK" ELSE "DIVERGENTE"

\* The event built for a product found in both stores.
MontarContagem(codigo) ==
    LET qtd_sistema == estoque_sistema[codigo].quantidade
        qtd_fisica == estoque_fisico[codigo]
        divergencia == qtd_fisica - qtd_sistema IN
    [codigo |-> codigo,
     nome |-> estoque_sistema[codigo].nome,
     categoria |-> estoque_sistema[codigo].categoria,
     qtd_sistema |-> qtd_sistema,
     qtd_fisica |-> qtd_fisica,
     divergencia |-> divergencia,
     valor_divergencia |->
         ValorDivergencia(divergencia, estoque_sistema[codigo].valor_unitario),
     status |-> StatusContagem(divergencia)]

\* Variant: a recount replaces the product's earlier events in the ledger.
AnexarSubstituindo(lista, contagem) ==
    Append(SelectSeq(lista, LAMBDA c : c.codigo # contagem.codigo), contagem)

\* The ledger after the event has been appended.
AnexarContagem(lista, contagem) == Append(lista, contagem)

\* Variant: every event goes to the divergent subset.
AnexarSempre(lista, contagem) == Append(lista, contagem)

\* Variant: a recount that finds no divergence drops the product's earlier
\* divergent entries.
AnexarOuRemover(lista, contagem) ==
    IF contagem.divergencia # 0 THEN Append(lista, contagem)
    ELSE SelectSeq(lista, LAMBDA d : d.codigo # contagem.codigo)

\* The divergent subset after the event has been appended to the ledger.
AnexarDivergencia(lista, contagem) ==
    IF contagem.divergencia # 0 THEN Append(lista, contagem) ELSE lista

----------------------------------------------------------------------------
\* calcular_acuracidade

ErroSemContagens == [erro |-> "Nenhuma contagem realizada"]

\* Variant: each product is counted once, however often it was recounted.
ContagensOkPorProduto(contagens) ==
    Cardinality({contagens[i].codigo :
                    i \in {j \in DOMAIN contagens : contagens[j].status = "OK"}})

ContagensOk(contagens) == Len(SelectSeq(contagens, LAMBDA c : c.status = "OK"))

RECURSIVE ValorTotalDivergencias(_)
ValorTotalDivergencias(lista) ==
    IF lista = <<>> THEN 0
    ELSE Head(lista).valor_divergencia + ValorTotalDivergencias(Tail(lista))

RECURSIVE SomaEstoque(_, _)
SomaEstoque(sistema, codigos) ==
    IF codigos = {} THEN 0
    ELSE LET k == CHOOSE x \in codigos : TRUE IN
         sistema[k].quantidade * sistema[k].valor_unitario
             + SomaEstoque(sistema, codigos \ {k})

\* Variant: the stock is valued at the counted quantity where there is one.
ValorTotalEstoqueContado ==
    SomaEstoque([k \in DOMAIN estoque_sistema |->
                    [quantidade |-> IF k \in DOMAIN estoque_fisico
                                    THEN estoque_fisico[k]
                                    ELSE estoque_sistema[k].quantidade,
                     valor_unitario |-> estoque_sistema[k].valor_unitario]],
                DOMAIN estoque_sistema)

ValorTotalEstoque == SomaEstoque(estoque_sistema, DOMAIN estoque_sistema)

calcular_acuracidade ==
    IF contagens_ciclicas = <<>> THEN ErroSemContagens
    ELSE LET total_contagens == Len(contagens_ciclicas)
             contagens_ok == ContagensOk(contagens_ciclicas)
             valor_total_divergencias == ValorTotalDivergencias(divergencias)
             valor_total_estoque == ValorTotalEstoque IN
         [acuracidade_percentual |-> Frac(contagens_ok * 100, total_contagens),
          total_contagens |-> total_contagens,
          produtos_divergentes |-> Len(divergencias),
          valor_divergencias |-> valor_total_divergencias,
          impacto_financeiro_percent |->
              IF valor_total_estoque > 0
              THEN Frac(valor_total_divergencias * 100, valor_total_estoque)
              ELSE <<0, 1>>,
          valor_total_estoque |-> valor_total_estoque]

----------------------------------------------------------------------------
\* calcular_acuracidade_inicial, calcular_economia_projetada

\* The value returned when a store, or their intersection, is empty.
AcuracidadePadrao == 78

ProdutosOk ==
    Cardinality({codigo \in _obter_produtos_comuns :
                    estoque_sistema[codigo].quantidade = estoque_fisico[codigo]})

\* Variant: the share is taken over the whole catalog.
AcuracidadeSobreCatalogo ==
    IF DOMAIN estoque_sistema = {} \/ DOMAIN estoque_fisico = {}
    THEN Frac(AcuracidadePadrao, 1)
    ELSE IF _obter_produtos_comuns = {} THEN Frac(AcuracidadePadrao, 1)
    ELSE Frac(ProdutosOk * 100, Cardinality(DOMAIN estoque_sistema))

calcular_acuracidade_inicial ==
    IF DOMAIN estoque_sistema = {} \/ DOMAIN estoque_fisico = {}
    THEN Frac(AcuracidadePadrao, 1)
    ELSE IF _obter_produtos_comuns = {} THEN Frac(AcuracidadePadrao, 1)
    ELSE Frac(ProdutosOk * 100, Cardinality(_obter_produtos_comuns))

\* The value returned when a store is empty, and the least value returned
\* otherwise.
EconomiaPadrao == 36700
EconomiaMinima == 5000

\* The larger of the fraction f and the integer n, as a fraction.
MaxFrac(f, n) == IF f[1] >= n * f[2] THEN f ELSE <<n, 1>>

RECURSIVE SomaDivergencias(_)
SomaDivergencias(codigos) ==
    IF codigos = {} THEN 0
    ELSE LET codigo == CHOOSE x \in codigos : TRUE
             divergencia ==
                 Abs(estoque_fisico[codigo] - estoque_sistema[codigo].quantidade) IN
         divergencia * estoque_sistema[codigo].valor_unitario
             + SomaDivergencias(codigos \ {codigo})

\* Variant: the least value is left out.
EconomiaSemMinimo ==
    IF DOMAIN estoque_sistema = {} \/ DOMAIN estoque_fisico = {}
    THEN <<EconomiaPadrao, 1>>
    ELSE Frac(SomaDivergencias(_obter_produtos_comuns) * 8, 10)

\* 0.8 is taken as the exact 8/10.
calcular_economia_projetada ==
    IF DOMAIN estoque_sistema = {} \/ DOMAIN estoque_fisico = {}
    THEN <<EconomiaPadrao, 1>>
    ELSE LET valor_total_divergencias == SomaDivergencias(_obter_produtos_comuns)
             economia_mensal == Frac(valor_total_divergencias * 8, 10) IN
         MaxFrac(economia_mensal, EconomiaMinima)

----------------------------------------------------------------------------
\* criar_grafico_roi and the Payback metric of the ROI tab

InvestimentoInicial == 50000
Meses == 12

NaoAlcancado == "nao alcancado"

\* The cumulative cash flow of months 0..Meses.
RECURSIVE FluxoCaixa(_, _)
FluxoCaixa(economia_mensal, fluxo_caixa) ==
    IF Len(fluxo_caixa) = Meses + 1 THEN fluxo_caixa
    ELSE LET ultimo == fluxo_caixa[Len(fluxo_caixa)] IN
         FluxoCaixa(economia_mensal,
             Append(fluxo_caixa,
                 Frac(ultimo[1] * economia_mensal[2] + economia_mensal[1] * ultimo[2],
                      ultimo[2] * economia_mensal[2])))

\* next((i for i, v in enumerate(fluxo_caixa) if v >= 0), 12)
payback_mes(fluxo_caixa) ==
    LET naoNegativos == {i \in DOMAIN fluxo_caixa : fluxo_caixa[i][1] >= 0} IN
    IF naoNegativos = {} THEN Meses
    ELSE (CHOOSE i \in naoNegativos : \A j \in naoNegativos : i <= j) - 1

\* The month the star marker is drawn at; no marker from month Meses on.
MarcadorPayback(fluxo_caixa) ==
    IF payback_mes(fluxo_caixa) < Meses THEN payback_mes(fluxo_caixa) ELSE NaoAlcancado

\* max(1, int(50000 / economia_mensal)) if economia_mensal > 0 else 12
payback_meses(economia_mensal) ==
    IF economia_mensal[1] > 0
    THEN LET meses == (InvestimentoInicial * economia_mensal[2]) \div economia_mensal[1] IN
         IF meses >= 1 THEN meses ELSE 1
    ELSE Meses

----------------------------------------------------------------------------
\* The operations as steps of the session

SemMetricas == [nenhuma |-> TRUE]

SemSimulacao == [nenhuma |-> TRUE]

Init ==
    /\ estoque_sistema = Vazio
    /\ estoque_fisico = Vazio
    /\ movimentacoes = <<>>
    /\ divergencias = <<>>
    /\ contagens_ciclicas = <<>>
    /\ dados_carregados = FALSE
    /\ op = [nome |-> "inicio", arg |-> <<>>]
    /\ retorno = <<>>
    /\ metricas_ant = SemMetricas
    /\ intervenientes = {}
    /\ simulacao = SemSimulacao

\* Upload of the catalog sheet: carregar_planilha_sistema, and the flag the
\* upload section sets when it returns True.
carregar_planilha_sistema(arquivo) ==
    LET r == CargaSistema(arquivo, estoque_sistema) IN
    /\ estoque_sistema' = r.estoque
    /\ dados_carregados' = (dados_carregados \/ r.ok)
    /\ op' = [nome |-> "carregar_planilha_sistema", arg |-> arquivo]
    /\ retorno' = [ok |-> r.ok, carregados |-> r.carregados,
                   faltantes |-> r.faltantes]
    /\ UNCHANGED <<estoque_fisico, movimentacoes, divergencias, contagens_ciclicas>>

carregar_planilha_fisico(arquivo) ==
    LET r == CargaFisico(arquivo, estoque_sistema, estoque_fisico) IN
    /\ estoque_fisico' = r.estoque
    /\ op' = [nome |-> "carregar_planilha_fisico", arg |-> arquivo]
    /\ retorno' = [ok |-> r.ok, carregados |-> r.carregados,
                   nao_encontrados |-> r.nao_encontrados,
                   faltantes |-> r.faltantes]
    /\ UNCHANGED <<estoque_sistema, movimentacoes, divergencias,
                   contagens_ciclicas, dados_carregados>>

\* Variant: only the catalog is checked and a product without a physical
\* count is taken as counted zero.
realizar_contagem_sem_fisico(codigo) ==
    /\ op' = [nome |-> "realizar_contagem_ciclica", arg |-> codigo]
    /\ IF codigo \notin DOMAIN estoque_sistema
       THEN /\ retorno' = ErroNaoEncontrado
            /\ UNCHANGED estado
       ELSE /\ Len(contagens_ciclicas) < MaxContagens
            /\ LET qtd_fisica == IF codigo \in DOMAIN estoque_fisico
                                 THEN estoque_fisico[codigo] ELSE 0
                   divergencia == qtd_fisica - estoque_sistema[codigo].quantidade
                   contagem ==
                       [codigo |-> codigo,
                        nome |-> estoque_sistema[codigo].nome,
                        categoria |-> estoque_sistema[codigo].categoria,
                        qtd_sistema |-> estoque_sistema[codigo].quantidade,
                        qtd_fisica |-> qtd_fisica,
                        divergencia |-> divergencia,
                        valor_divergencia |->
                            ValorDivergencia(divergencia,
                                estoque_sistema[codigo].valor_unitario),
                        status |-> StatusContagem(divergencia)] IN
               /\ contagens_ciclicas' = Append(contagens_ciclicas, contagem)
               /\ divergencias' = AnexarDivergencia(divergencias, contagem)
               /\ retorno' = contagem
            /\ UNCHANGED <<estoque_sistema, estoque_fisico, movimentacoes,
                           dados_carregados>>

\* Variant: a count that finds a divergence writes the counted quantity
\* back to the catalog.
realizar_contagem_com_ajuste(codigo) ==
    /\ op' = [nome |-> "realizar_contagem_ciclica", arg |-> codigo]
    /\ IF ~Encontrado(codigo)
       THEN /\ retorno' = ErroNaoEncontrado
            /\ UNCHANGED estado
       ELSE /\ Len(contagens_ciclicas) < MaxContagens
            /\ LET contagem == MontarContagem(codigo) IN
               /\ contagens_ciclicas' = AnexarContagem(contagens_ciclicas, contagem)
               /\ divergencias' = AnexarDivergencia(divergencias, contagem)
               /\ retorno' = contagem
               /\ estoque_sistema' =
                      [estoque_sistema EXCEPT ![codigo].quantidade = contagem.qtd_fisica]
            /\ UNCHANGED <<estoque_fisico, movimentacoes, dados_carregados>>

realizar_contagem_ciclica(codigo) ==
    /\ op' = [nome |-> "realizar_contagem_ciclica", arg |-> codigo]
    /\ IF ~Encontrado(codigo)
       THEN /\ retorno' = ErroNaoEncontrado
            /\ UNCHANGED estado
       ELSE /\ Len(contagens_ciclicas) < MaxContagens
            /\ LET contagem == MontarContagem(codigo) IN
               /\ contagens_ciclicas' = AnexarContagem(contagens_ciclicas, contagem)
               /\ divergencias' = AnexarDivergencia(divergencias, contagem)
               /\ retorno' = contagem
            /\ UNCHANGED <<estoque_sistema, estoque_fisico, movimentacoes,
                           dados_carregados>>

\* Variant: the reset forgets the divergent subset.
ResetSemDivergencias ==
    /\ _obter_produtos_comuns # {}
    /\ movimentacoes' = <<>>
    /\ contagens_ciclicas' = <<>>
    /\ op' = [nome |-> "reset_contagens",
              arg |-> [apagadas |-> Len(contagens_ciclicas)]]
    /\ retorno' = <<>>
    /\ UNCHANGED <<estoque_sistema, estoque_fisico, divergencias, dados_carregados>>

\* Sidebar button "Reset Contagens"; the sidebar shows no button when the
\* two stores have no product in common.  'arg' notes how many events the
\* ledger held when the button was pressed.
ResetContagens ==
    /\ _obter_produtos_comuns # {}
    /\ movimentacoes' = <<>>
    /\ divergencias' = <<>>
    /\ contagens_ciclicas' = <<>>
    /\ op' = [nome |-> "reset_contagens",
              arg |-> [apagadas |-> Len(contagens_ciclicas)]]
    /\ retorno' = <<>>
    /\ UNCHANGED <<estoque_sistema, estoque_fisico, dados_carregados>>

\* A call of calcular_acuracidade.  'arg' notes what the observer held when
\* the call was made: the previous call's result and the operations since.
CalcularAcuracidade ==
    /\ op' = [nome |-> "calcular_acuracidade",
              arg |-> [anterior |-> metricas_ant, entre |-> intervenientes]]
    /\ retorno' = calcular_acuracidade
    /\ UNCHANGED estado

\* A call of obter_produtos_divergentes whose loop visits the common
\* products in the order 'ordem'.
ObterProdutosDivergentes ==
    \E ordem \in Ordens(_obter_produtos_comuns) :
        /\ op' = [nome |-> "obter_produtos_divergentes", arg |-> ordem]
        /\ retorno' = obter_produtos_divergentes(ordem)
        /\ UNCHANGED estado

\* The loop of the button: realizar_contagem_ciclica for each code of the
\* list, in list order.
RECURSIVE ContarEmOrdem(_, _)
ContarEmOrdem(produtos, listas) ==
    IF produtos = <<>> THEN listas
    ELSE IF ~Encontrado(Head(produtos)) THEN ContarEmOrdem(Tail(produtos), listas)
    ELSE LET contagem == MontarContagem(Head(produtos)) IN
         ContarEmOrdem(Tail(produtos),
             [contagens_ciclicas |-> AnexarContagem(listas.contagens_ciclicas, contagem),
              divergencias |-> AnexarDivergencia(listas.divergencias, contagem)])

\* Sidebar button "Simular Contagens Multiplas": one count for each common
\* product, in the order of list(set).  'arg' notes that order and how many
\* events the ledger held when the button was pressed.
SimularContagensMultiplas ==
    /\ _obter_produtos_comuns # {}
    /\ Len(contagens_ciclicas) + Cardinality(_obter_produtos_comuns) <= MaxContagens
    /\ \E produtos_disponiveis \in Ordens(_obter_produtos_comuns) :
           LET r == ContarEmOrdem(produtos_disponiveis,
                        [contagens_ciclicas |-> contagens_ciclicas,
                         divergencias |-> divergencias]) IN
           /\ contagens_ciclicas' = r.contagens_ciclicas
           /\ divergencias' = r.divergencias
           /\ op' = [nome |-> "simular_contagens_multiplas",
                     arg |-> [produtos |-> produtos_disponiveis,
                              antes |-> Len(contagens_ciclicas)]]
           /\ retorno' = <<>>
    /\ UNCHANGED <<estoque_sistema, estoque_fisico, movimentacoes, dados_carregados>>

CalcularAcuracidadeInicial ==
    /\ op' = [nome |-> "calcular_acuracidade_inicial", arg |-> <<>>]
    /\ retorno' = calcular_acuracidade_inicial
    /\ UNCHANGED estado

CalcularEconomiaProjetada ==
    /\ op' = [nome |-> "calcular_economia_projetada", arg |-> <<>>]
    /\ retorno' = calcular_economia_projetada
    /\ UNCHANGED estado

\* The ROI tab: main shows it only when both stores hold data.
ExibirRoi ==
    /\ DOMAIN estoque_sistema # {}
    /\ DOMAIN estoque_fisico # {}
    /\ LET economia_mensal == calcular_economia_projetada
           fluxo_caixa == FluxoCaixa(economia_mensal, <<Frac(-InvestimentoInicial, 1)>>) IN
       /\ op' = [nome |-> "roi", arg |-> economia_mensal]
       /\ retorno' = [fluxo_caixa |-> fluxo_caixa,
                      marcador |-> MarcadorPayback(fluxo_caixa),
                      payback_meses |-> payback_meses(economia_mensal)]
    /\ UNCHANGED estado

Next ==
    \/ SimularContagensMultiplas /\ UNCHANGED <<metricas_ant, intervenientes, simulacao>>
    \/ CalcularAcuracidadeInicial /\ UNCHANGED <<metricas_ant, intervenientes, simulacao>>
    \/ CalcularEconomiaProjetada /\ UNCHANGED <<metricas_ant, intervenientes, simulacao>>
    \/ ExibirRoi /\ UNCHANGED <<metricas_ant, intervenientes, simulacao>>
    \/ \E arquivo \in PlanilhasSistema :
           carregar_planilha_sistema(arquivo) /\ UNCHANGED <<metricas_ant, intervenientes, simulacao>>
    \/ \E arquivo \in PlanilhasFisico :
           carregar_planilha_fisico(arquivo) /\ UNCHANGED <<metricas_ant, intervenientes, simulacao>>
    \/ \E codigo \in CodigosConsulta :
           realizar_contagem_ciclica(codigo) /\ UNCHANGED <<metricas_ant, intervenientes, simulacao>>
    \/ ResetContagens /\ UNCHANGED <<metricas_ant, intervenientes, simulacao>>
    \/ CalcularAcuracidade /\ UNCHANGED <<metricas_ant, intervenientes, simulacao>>
    \/ ObterProdutosDivergentes /\ UNCHANGED <<metricas_ant, intervenientes, simulacao>>

Spec == Init /\ [][Next]_vars

----------------------------------------------------------------------------
\* The same session watched by an observer that remembers the result of the
\* latest calcular_acuracidade call (metricas_ant) and the operations run
\* since that call (intervenientes), on fewer spreadsheets.

Observar(nome) ==
    /\ simulacao' = simulacao
    /\ metricas_ant' = metricas_ant
    /\ intervenientes' =
           IF metricas_ant = SemMetricas THEN {} ELSE intervenientes \cup {nome}

ObservarMetricas ==
    /\ simulacao' = simulacao
    /\ metricas_ant' = calcular_acuracidade
    /\ intervenientes' = {}

NextObservado ==
    \/ \E arquivo \in {SistemaBase, SistemaRevisado} :
           carregar_planilha_sistema(arquivo) /\ Observar("carregar_planilha_sistema")
    \/ \E arquivo \in {FisicoCompleto, FisicoRecontado} :
           carregar_planilha_fisico(arquivo) /\ Observar("carregar_planilha_fisico")
    \/ \E codigo \in {A001, D001} :
           realizar_contagem_ciclica(codigo) /\ Observar("realizar_contagem_ciclica")
    \/ ResetContagens /\ Observar("reset_contagens")
    \/ CalcularAcuracidade /\ ObservarMetricas

SpecObservado == Init /\ [][NextObservado]_vars

----------------------------------------------------------------------------
\* gerar_dados_simulacao, one iteration of its loop at a time.  Percentages
\* are whole numbers of 1/Escala of a point, so that thirds and the shares
\* 0.4, 0.8 and 0.2 of the gap are exact.

Escala == 30 * 100

Min(a, b) == IF a <= b THEN a ELSE b
Max(a, b) == IF a >= b THEN a ELSE b

\* Initial accuracies: what calcular_acuracidade_inicial returns for up to
\* three common products (0, 100/3, 50, 200/3, 100), its default 78, and
\* the values around the thresholds 80, 90 and 93.
AcuracidadesIniciais ==
    {p * Escala : p \in {0, 50, 78, 79, 80, 89, 90, 92, 93, 94, 97, 98, 99, 100}}
        \cup {(100 * Escala) \div 3, (200 * Escala) \div 3}

\* random.uniform(-0.5, 0.5), in steps of a quarter point.
Variacoes == {(v * Escala) \div 4 : v \in -2..2}

MetaFinal(acuracidade_inicial) ==
    IF acuracidade_inicial >= 90 * Escala
    THEN Min(98 * Escala, acuracidade_inicial + 5 * Escala)
    ELSE IF acuracidade_inicial >= 80 * Escala THEN 95 * Escala
    ELSE 92 * Escala

\* The accuracy of the day before the random variation is added.
AcuracidadeDoDia(acuracidade_inicial, meta_final, dia) ==
    LET gap == meta_final - acuracidade_inicial IN
    IF dia = 0 THEN acuracidade_inicial
    ELSE IF dia <= 10 THEN acuracidade_inicial + (gap * 4 * dia) \div 100
    ELSE IF dia <= 20
         THEN acuracidade_inicial + (gap * 4) \div 10 + (gap * 4 * (dia - 10)) \div 100
    ELSE acuracidade_inicial + (gap * 8) \div 10 + (gap * 2 * (dia - 20)) \div 100

\* Variant: the value is not clamped.
SemLimite(acuracidade_inicial, meta_final, acuracidade) == acuracidade

\* max(acuracidade_inicial - 2, min(meta_final + 1, acuracidade))
LimitarAcuracidade(acuracidade_inicial, meta_final, acuracidade) ==
    Max(acuracidade_inicial - 2 * Escala, Min(meta_final + Escala, acuracidade))

Fase(dia) ==
    IF dia <= 10 THEN "Implementacao"
    ELSE IF dia <= 20 THEN "Estabilizacao" ELSE "Otimizacao"

\* The call starts with its inputs and an empty result list.  'resultados'
\* keeps the day and phase of every point; the accuracy is kept for the
\* point appended last only ('acuracidade').
InitSimulacao ==
    /\ estoque_sistema = Vazio
    /\ estoque_fisico = Vazio
    /\ movimentacoes = <<>>
    /\ divergencias = <<>>
    /\ contagens_ciclicas = <<>>
    /\ dados_carregados = FALSE
    /\ op = [nome |-> "gerar_dados_simulacao", arg |-> <<>>]
    /\ retorno = <<>>
    /\ metricas_ant = SemMetricas
    /\ intervenientes = {}
    /\ simulacao \in
           {[acuracidade_inicial |-> a, meta_final |-> MetaFinal(a), dias |-> d,
             dia |-> 0, resultados |-> <<>>, acuracidade |-> a, retornado |-> FALSE] :
                a \in AcuracidadesIniciais, d \in 1..MaxDias}

\* One iteration of 'for dia in range(dias + 1)'.
PassoSimulacao ==
    /\ simulacao.dia <= simulacao.dias
    /\ \E variacao \in Variacoes :
           LET dia == simulacao.dia
               acuracidade ==
                   AcuracidadeDoDia(simulacao.acuracidade_inicial,
                                    simulacao.meta_final, dia) + variacao IN
           simulacao' =
               [simulacao EXCEPT
                    !.acuracidade =
                        LimitarAcuracidade(simulacao.acuracidade_inicial,
                                           simulacao.meta_final, acuracidade),
                    !.resultados = Append(@, [dia |-> dia, fase |-> Fase(dia)]),
                    !.dia = dia + 1]
    /\ UNCHANGED <<estado, op, retorno, metricas_ant, intervenientes>>

\* The loop is over: the list is returned.
RetornarSimulacao ==
    /\ simulacao.dia = simulacao.dias + 1
    /\ ~simulacao.retornado
    /\ simulacao' = [simulacao EXCEPT !.retornado = TRUE]
    /\ UNCHANGED <<estado, op, retorno, metricas_ant, intervenientes>>

NextSimulacao == PassoSimulacao \/ RetornarSimulacao

SpecSimulacao == InitSimulacao /\ [][NextSimulacao]_vars

----------------------------------------------------------------------------
\* Properties

EhContagem == op.nome = "realizar_contagem_ciclica"
EhContagem_prox == op'.nome = "realizar_contagem_ciclica"

\* C1: a cyclic count of a product held by both stores appends exactly one
\* event at the end of the ledger, appends that same event to the divergent
\* subset if and only if physical minus system quantity is not zero, and
\* gives it status DIVERGENTE in that case and OK otherwise.
C1_ContagemAnexada ==
    [][ (EhContagem_prox /\ Encontrado(op'.arg)) =>
          LET d == estoque_fisico[op'.arg] - estoque_sistema[op'.arg].quantidade IN
          /\ contagens_ciclicas' = Append(contagens_ciclicas, retorno')
          /\ d # 0 => /\ divergencias' = Append(divergencias, retorno')
                      /\ retorno'.status = "DIVERGENTE"
          /\ d = 0 => /\ divergencias' = divergencias
                      /\ retorno'.status = "OK" ]_vars

\* A ledger with an OK event followed by a divergent one, the latter alone
\* in the divergent subset.
C1_Witness ==
    /\ EhContagem
    /\ Len(contagens_ciclicas) = 2
    /\ contagens_ciclicas[1].status = "OK"
    /\ contagens_ciclicas[2].status = "DIVERGENTE"
    /\ retorno = contagens_ciclicas[2]
    /\ divergencias = <<retorno>>

\* C2: a cyclic count of a code missing from the catalog or from the physical
\* store returns the not-found error and leaves ledger, divergent subset,
\* catalog and physical store as they were; a count of a valid code made
\* right after it succeeds.
C2_NaoEncontrado ==
    [][ /\ (EhContagem_prox /\ ~Encontrado(op'.arg)) =>
              /\ retorno' = ErroNaoEncontrado
              /\ contagens_ciclicas' = contagens_ciclicas
              /\ divergencias' = divergencias
              /\ estoque_sistema' = estoque_sistema
              /\ estoque_fisico' = estoque_fisico
        /\ (EhContagem /\ ~Encontrado(op.arg) /\ EhContagem_prox /\ Encontrado(op'.arg)) =>
              /\ retorno' = MontarContagem(op'.arg)
              /\ contagens_ciclicas' = Append(contagens_ciclicas, retorno') ]_vars

\* A failed count of a product that the catalog holds and the physical store
\* lacks, with events in the ledger and valid codes left to count.
C2_Witness ==
    /\ EhContagem
    /\ op.arg \in DOMAIN estoque_sistema
    /\ op.arg \notin DOMAIN estoque_fisico
    /\ retorno = ErroNaoEncontrado
    /\ contagens_ciclicas # <<>>
    /\ _obter_produtos_comuns # {}

\* C3: the event of a cyclic count has divergencia = physical - system
\* quantity and valor_divergencia = |divergencia| x unit value, taken from
\* the two stores as they are when the count is made.
C3_ValoresDaContagem ==
    [][ (EhContagem_prox /\ Encontrado(op'.arg)) =>
          LET c == op'.arg
              e == retorno' IN
          /\ e.codigo = c
          /\ e.qtd_sistema = estoque_sistema[c].quantidade
          /\ e.qtd_fisica = estoque_fisico[c]
          /\ e.divergencia = estoque_fisico[c] - estoque_sistema[c].quantidade
          /\ e.valor_divergencia =
                 (IF e.divergencia < 0 THEN -e.divergencia ELSE e.divergencia)
                     * estoque_sistema[c].valor_unitario
          /\ e.valor_divergencia >= 0 ]_vars

\* Quantity 150 at 1200 counted as 145: -5, 6000, DIVERGENTE.
C3_Witness ==
    /\ EhContagem
    /\ Encontrado(op.arg)
    /\ estoque_sistema[op.arg].quantidade = 150
    /\ estoque_sistema[op.arg].valor_unitario = 1200
    /\ estoque_fisico[op.arg] = 145
    /\ retorno.divergencia = -5
    /\ retorno.valor_divergencia = 6000
    /\ retorno.status = "DIVERGENTE"

\* The products that both stores hold with different quantities.
ComDivergencia ==
    {k \in (DOMAIN estoque_sistema) \cap (DOMAIN estoque_fisico) :
        estoque_fisico[k] # estoque_sistema[k].quantidade}

\* C4: in every state, whatever order the loop takes, the divergence list has
\* one entry for each product held by both stores with different quantities,
\* and nothing else.
C4_SoDivergentesComuns ==
    \A ordem \in Ordens(_obter_produtos_comuns) :
        LET r == obter_produtos_divergentes(ordem) IN
        /\ {r[i].codigo : i \in DOMAIN r} = ComDivergencia
        /\ Len(r) = Cardinality(ComDivergencia)
        /\ \A i \in DOMAIN r :
               /\ r[i].divergencia_unidades =
                      estoque_fisico[r[i].codigo] - estoque_sistema[r[i].codigo].quantidade
               /\ r[i].divergencia_unidades # 0
        /\ (DOMAIN estoque_sistema = {} => r = <<>>)

\* A call that returned a divergence while one common product agrees and the
\* physical store holds a product the catalog lacks.
C4_Witness ==
    /\ op.nome = "obter_produtos_divergentes"
    /\ retorno # <<>>
    /\ \E k \in _obter_produtos_comuns : estoque_fisico[k] = estoque_sistema[k].quantidade
    /\ (DOMAIN estoque_fisico) \ (DOMAIN estoque_sistema) # {}
    /\ \A i \in DOMAIN retorno : retorno[i].codigo \in ComDivergencia

\* Position of a code in an enumeration order.
Posicao(ordem, codigo) == CHOOSE i \in DOMAIN ordem : ordem[i] = codigo

\* C5: the divergence list is in non-increasing order of valor_divergencia,
\* and entries of equal value keep the order in which the loop met them.
C5_OrdenadoEstavel ==
    \A ordem \in Ordens(_obter_produtos_comuns) :
        LET r == obter_produtos_divergentes(ordem) IN
        \A i, j \in DOMAIN r :
            i < j =>
              /\ r[i].valor_divergencia >= r[j].valor_divergencia
              /\ r[i].valor_divergencia = r[j].valor_divergencia =>
                     Posicao(ordem, r[i].codigo) < Posicao(ordem, r[j].codigo)

\* Three divergences, the smallest met first, the two of equal value met in
\* the order C001, A001 and returned in that order ahead of the smallest.
C5_Witness ==
    /\ op.nome = "obter_produtos_divergentes"
    /\ op.arg = <<B001, C001, A001>>
    /\ Len(retorno) = 3
    /\ retorno[1].codigo = C001
    /\ retorno[2].codigo = A001
    /\ retorno[3].codigo = B001
    /\ retorno[1].valor_divergencia = retorno[2].valor_divergencia
    /\ retorno[2].valor_divergencia > retorno[3].valor_divergencia

\* C6: the reset leaves the ledger, the divergent subset and the movement
\* log empty and both stores as they were, and a calcular_acuracidade call
\* made right after it reports that no count was made.
C6_ResetLimpa ==
    [][ /\ op'.nome = "reset_contagens" =>
              /\ contagens_ciclicas' = <<>>
              /\ divergencias' = <<>>
              /\ movimentacoes' = <<>>
              /\ estoque_sistema' = estoque_sistema
              /\ estoque_fisico' = estoque_fisico
              /\ calcular_acuracidade' = ErroSemContagens
        /\ (op.nome = "reset_contagens" /\ op'.nome = "calcular_acuracidade") =>
              retorno' = ErroSemContagens ]_vars

\* A reset that found two events in the ledger, both stores loaded.
C6_Witness ==
    /\ op.nome = "reset_contagens"
    /\ op.arg.apagadas = 2
    /\ contagens_ciclicas = <<>>
    /\ divergencias = <<>>
    /\ DOMAIN estoque_sistema # {}
    /\ DOMAIN estoque_fisico # {}

\* C7: with a ledger that is not empty, the accuracy reported is
\* 100 x (events with status OK) / (all events), every event of the ledger
\* counted, recounts of one product included.
C7_Acuracidade ==
    contagens_ciclicas # <<>> =>
        LET m == calcular_acuracidade
            n == Len(contagens_ciclicas)
            ok == Cardinality({i \in DOMAIN contagens_ciclicas :
                                  contagens_ciclicas[i].status = "OK"}) IN
        /\ m.total_contagens = n
        /\ m.acuracidade_percentual[2] > 0
        /\ m.acuracidade_percentual[1] * n = 100 * ok * m.acuracidade_percentual[2]
        /\ op.nome = "calcular_acuracidade" => retorno = m

\* One product counted twice, found right both times: 100 per cent, two
\* events in numerator and denominator.
C7_Witness ==
    /\ op.nome = "calcular_acuracidade"
    /\ Len(contagens_ciclicas) = 2
    /\ contagens_ciclicas[1].codigo = contagens_ciclicas[2].codigo
    /\ contagens_ciclicas[1].status = "OK"
    /\ contagens_ciclicas[2].status = "OK"
    /\ retorno.total_contagens = 2
    /\ retorno.acuracidade_percentual = <<100, 1>>

\* The sum calcular_acuracidade makes over the divergent subset.
TotalDivergente == ValorTotalDivergencias(divergencias)

\* C8: the divergence total reported is the sum over every event put in the
\* divergent subset since the last reset: a count adds its event's value
\* (zero for an OK recount, which removes nothing), the bulk count adds the
\* values of the events it appends, a reset brings the total to zero, no
\* other operation changes it, and a calcular_acuracidade call reports it.
C8_TotalAcumulado ==
    [][ /\ IF EhContagem_prox /\ Encontrado(op'.arg)
           THEN TotalDivergente' = TotalDivergente + retorno'.valor_divergencia
           ELSE IF op'.nome = "simular_contagens_multiplas"
           THEN TotalDivergente' =
                    TotalDivergente
                        + ValorTotalDivergencias(
                              SubSeq(contagens_ciclicas', Len(contagens_ciclicas) + 1,
                                     Len(contagens_ciclicas')))
           ELSE IF op'.nome = "reset_contagens"
           THEN TotalDivergente' = 0
           ELSE TotalDivergente' = TotalDivergente
        /\ (op'.nome = "calcular_acuracidade" /\ contagens_ciclicas' # <<>>) =>
               retorno'.valor_divergencias = TotalDivergente' ]_vars

\* A product counted as divergent, its observation reloaded to agree with the
\* catalog, recounted OK: the first event's value is still in the total.
C8_Witness ==
    /\ op.nome = "calcular_acuracidade"
    /\ Len(contagens_ciclicas) = 2
    /\ contagens_ciclicas[1].codigo = contagens_ciclicas[2].codigo
    /\ contagens_ciclicas[1].status = "DIVERGENTE"
    /\ contagens_ciclicas[2].status = "OK"
    /\ estoque_fisico[contagens_ciclicas[2].codigo]
           = estoque_sistema[contagens_ciclicas[2].codigo].quantidade
    /\ retorno.valor_divergencias = contagens_ciclicas[1].valor_divergencia
    /\ retorno.valor_divergencias > 0

SegundaChamada ==
    /\ op.nome = "calcular_acuracidade"
    /\ op.arg.anterior # SemMetricas

\* C9 as stated: two calcular_acuracidade calls with no cyclic count between
\* them return the same result.
C9_SemContagemEntre ==
    (SegundaChamada /\ "realizar_contagem_ciclica" \notin op.arg.entre) =>
        retorno = op.arg.anterior

\* C9 amended: two calcular_acuracidade calls return the same result when no
\* cyclic count, no reset and no catalog upload ran between them.
C9_Idempotente ==
    (/\ SegundaChamada
     /\ op.arg.entre \cap {"realizar_contagem_ciclica", "reset_contagens",
                          "carregar_planilha_sistema"} = {}) =>
        retorno = op.arg.anterior

\* A second call after a reload of the physical sheet alone, both calls with
\* a ledger to report on.
C9_Witness ==
    /\ SegundaChamada
    /\ op.arg.entre = {"carregar_planilha_fisico"}
    /\ contagens_ciclicas # <<>>
    /\ retorno = op.arg.anterior
    /\ retorno.total_contagens = Len(contagens_ciclicas)

\* The catalog holds the rows of the sheet and nothing else: every key is
\* the stripped code of a row, and its entry is the last row of that code.
SoLinhasDe(linhas, catalogo) ==
    /\ DOMAIN catalogo = {Strip(linhas[i].codigo) : i \in DOMAIN linhas}
    /\ \A k \in DOMAIN catalogo :
           \E i \in DOMAIN linhas :
               /\ Strip(linhas[i].codigo) = k
               /\ \A j \in DOMAIN linhas : j > i => Strip(linhas[j].codigo) # k
               /\ catalogo[k].quantidade = linhas[i].quantidade.v
               /\ catalogo[k].valor_unitario = linhas[i].valor_unitario.v
               /\ catalogo[k].nome = Strip(linhas[i].nome)
               /\ catalogo[k].categoria = Strip(linhas[i].categoria)

CargaSistemaBemSucedida_prox ==
    /\ op'.nome = "carregar_planilha_sistema"
    /\ retorno'.ok

\* C10 as stated: a successful catalog upload leaves in the catalog only the
\* rows just loaded and leaves no earlier observation in the physical store.
C10_AmbosLimpos ==
    [][ CargaSistemaBemSucedida_prox =>
          /\ SoLinhasDe(op'.arg.linhas, estoque_sistema')
          /\ estoque_fisico' = Vazio ]_vars

\* C10 amended: a successful catalog upload leaves in the catalog only the
\* rows just loaded, and leaves the physical store as it was.
C10_CatalogoSubstituido ==
    [][ CargaSistemaBemSucedida_prox =>
          /\ SoLinhasDe(op'.arg.linhas, estoque_sistema')
          /\ estoque_fisico' = estoque_fisico ]_vars

\* The revised catalog loaded over the first one: B001 is gone from the
\* catalog and its observation is still in the physical store.
C10_Witness ==
    /\ op.nome = "carregar_planilha_sistema"
    /\ op.arg = SistemaRevisado
    /\ retorno.ok
    /\ DOMAIN estoque_sistema = {A001, C001}
    /\ estoque_sistema[A001].quantidade = 145
    /\ DOMAIN estoque_fisico = {A001, B001, C001}

\* C11: a load that fails, for a missing column or for a cell that is not a
\* number, leaves the store it loads exactly as it was.
C11_FalhaNaoAltera ==
    [][ /\ (op'.nome = "carregar_planilha_sistema" /\ ~retorno'.ok) =>
               estoque_sistema' = estoque_sistema
        /\ (op'.nome = "carregar_planilha_fisico" /\ ~retorno'.ok) =>
               estoque_fisico' = estoque_fisico ]_vars

\* The stripped codes of the rows of a sheet, in row order.
RECURSIVE CodigosDasLinhas(_)
CodigosDasLinhas(linhas) ==
    IF linhas = <<>> THEN <<>>
    ELSE <<Strip(Head(linhas).codigo)>> \o CodigosDasLinhas(Tail(linhas))

CargaFisicoFeita == op.nome = "carregar_planilha_fisico"

Prefixo(s, t) == Len(s) <= Len(t) /\ SubSeq(t, 1, Len(s)) = s

\* C13: every step other than the reset keeps the events already in the
\* ledger and in the divergent subset, unchanged and in the same order, at
\* the front of the later lists.
C13_SoAcrescenta ==
    [][ op'.nome # "reset_contagens" =>
            /\ Prefixo(contagens_ciclicas, contagens_ciclicas')
            /\ Prefixo(divergencias, divergencias') ]_vars

\* A catalog upload made with two events in the ledger, one of them
\* divergent: both lists are still there after it.
C13_Witness ==
    /\ op.nome = "carregar_planilha_sistema"
    /\ retorno.ok
    /\ Len(contagens_ciclicas) = 2
    /\ Len(divergencias) = 1
    /\ contagens_ciclicas[1].codigo \notin DOMAIN estoque_sistema

\* C14: a cyclic count (found or not), the bulk count, the divergence list,
\* the metrics, the initial accuracy and the projected savings leave both
\* stores exactly as they were.
C14_LeiturasNaoAlteram ==
    [][ op'.nome \in {"realizar_contagem_ciclica", "simular_contagens_multiplas",
                      "obter_produtos_divergentes", "calcular_acuracidade",
                      "calcular_acuracidade_inicial", "calcular_economia_projetada"} =>
            /\ estoque_sistema' = estoque_sistema
            /\ estoque_fisico' = estoque_fisico ]_vars

\* A count that found a divergence, with the catalog still holding the
\* system quantity and the physical store the counted one.
C14_Witness ==
    /\ op.nome = "realizar_contagem_ciclica"
    /\ Encontrado(op.arg)
    /\ retorno.status = "DIVERGENTE"
    /\ estoque_sistema[op.arg].quantidade = retorno.qtd_sistema
    /\ estoque_fisico[op.arg] = retorno.qtd_fisica
    /\ retorno.qtd_sistema # retorno.qtd_fisica

\* 80% of the sum of valor_divergencia over the list obter_produtos_divergentes
\* returns, or 5000 when that figure is smaller.
OitentaPorCentoOuMinimo(ordem) ==
    LET soma == ValorTotalDivergencias(obter_produtos_divergentes(ordem))
        oitenta == Frac(soma * 80, 100) IN
    IF oitenta[1] < 5000 * oitenta[2] THEN <<5000, 1>> ELSE oitenta

EconomiaCalculada == op.nome = "calcular_economia_projetada"

\* C15 as stated: whatever the state, the projected monthly savings are 80%
\* of the summed divergence values of the current divergence list, or 5000
\* when that is smaller.
C15_EconomiaOuMinimo ==
    EconomiaCalculada =>
        \A ordem \in Ordens(_obter_produtos_comuns) :
            retorno = OitentaPorCentoOuMinimo(ordem)

\* C15: with data in both stores the projected monthly savings are 80% of
\* the summed divergence values of the current divergence list, or 5000 when
\* that is smaller; with an empty store they are the fixed 36700.
C15_EconomiaComDados ==
    EconomiaCalculada =>
        \A ordem \in Ordens(_obter_produtos_comuns) :
            retorno = IF DOMAIN estoque_sistema # {} /\ DOMAIN estoque_fisico # {}
                      THEN OitentaPorCentoOuMinimo(ordem)
                      ELSE <<36700, 1>>

\* Three divergent products worth 12050 in all: savings of 9640.
C15_Witness ==
    /\ EconomiaCalculada
    /\ Cardinality(_obter_produtos_comuns) = 3
    /\ \E ordem \in Ordens(_obter_produtos_comuns) :
           Len(obter_produtos_divergentes(ordem)) = 3
    /\ retorno = <<9640, 1>>

\* The target of the projection for an initial accuracy.
Alvo(inicial) ==
    IF inicial >= 90 * Escala
    THEN (IF inicial + 5 * Escala < 98 * Escala THEN inicial + 5 * Escala ELSE 98 * Escala)
    ELSE IF inicial >= 80 * Escala THEN 95 * Escala
    ELSE 92 * Escala

\* C16: the projection for 'dias' days holds the points of days 0, 1, ... in
\* that order, dias + 1 of them when it returns, and each accuracy lies
\* between the initial accuracy less 2 and the target plus 1, whatever the
\* random variation.
C16_ProjecaoLimitada ==
    simulacao # SemSimulacao =>
        /\ \A i \in DOMAIN simulacao.resultados : simulacao.resultados[i].dia = i - 1
        /\ Len(simulacao.resultados) <= simulacao.dias + 1
        /\ simulacao.retornado => Len(simulacao.resultados) = simulacao.dias + 1
        /\ simulacao.resultados # <<>> =>
               /\ simulacao.acuracidade >= simulacao.acuracidade_inicial - 2 * Escala
               /\ simulacao.acuracidade <= Alvo(simulacao.acuracidade_inicial) + Escala

\* A returned projection of 30 days from 100%: 31 points, the last one held
\* at 98 by the lower limit.
C16_Witness ==
    /\ simulacao # SemSimulacao
    /\ simulacao.retornado
    /\ simulacao.dias = 30
    /\ Len(simulacao.resultados) = 31
    /\ simulacao.acuracidade_inicial = 100 * Escala
    /\ simulacao.acuracidade = 98 * Escala

\* The first month at which the cumulative cash flow is not negative, if any.
PrimeiroMesNaoNegativo(fluxo_caixa) ==
    LET naoNegativos == {i \in DOMAIN fluxo_caixa : fluxo_caixa[i][1] >= 0} IN
    IF naoNegativos = {} THEN NaoAlcancado
    ELSE (CHOOSE i \in naoNegativos : \A j \in naoNegativos : i <= j) - 1

\* C17: on the ROI tab the cash flow starts at -50000 and grows by the
\* monthly savings for 12 months, and both the marker of the chart and the
\* Payback metric give the first month at which it is not negative.
C17_PaybackPrimeiroMes ==
    op.nome = "roi" =>
        /\ Len(retorno.fluxo_caixa) = 13
        /\ retorno.fluxo_caixa[1] = <<-50000, 1>>
        /\ \A i \in 2..13 :
               retorno.fluxo_caixa[i] =
                   Frac(retorno.fluxo_caixa[i - 1][1] * op.arg[2]
                            + op.arg[1] * retorno.fluxo_caixa[i - 1][2],
                        retorno.fluxo_caixa[i - 1][2] * op.arg[2])
        /\ retorno.marcador = PrimeiroMesNaoNegativo(retorno.fluxo_caixa)
        /\ retorno.payback_meses = PrimeiroMesNaoNegativo(retorno.fluxo_caixa)

\* C18: the divergent subset is the ledger's DIVERGENTE events, the same
\* events in the same order, and the number of divergent entries the metrics
\* report is the number of events less the number of OK events.
C18_SubsequenciaDivergente ==
    /\ divergencias = SelectSeq(contagens_ciclicas, LAMBDA c : c.status = "DIVERGENTE")
    /\ (op.nome = "calcular_acuracidade" /\ contagens_ciclicas # <<>>) =>
           retorno.produtos_divergentes =
               Len(contagens_ciclicas)
                   - Cardinality({i \in DOMAIN contagens_ciclicas :
                                      contagens_ciclicas[i].status = "OK"})

\* Metrics over a ledger with an OK event followed by a divergent one.
C18_Witness ==
    /\ op.nome = "calcular_acuracidade"
    /\ Len(contagens_ciclicas) = 2
    /\ contagens_ciclicas[1].status = "OK"
    /\ contagens_ciclicas[2].status = "DIVERGENTE"
    /\ divergencias = <<contagens_ciclicas[2]>>
    /\ retorno.produtos_divergentes = 1

\* The bulk count has just run on an empty ledger.
ContagemMultiplaDoZero ==
    op.nome = "simular_contagens_multiplas" /\ op.arg.antes = 0

\* C19: after the bulk count on an empty ledger, with a product common to
\* both stores, the ledger holds one event for each common product and no
\* other, and the accuracy of the metrics is the initial accuracy: the share
\* of common products whose two quantities are equal, times 100.
C19_ContagemMultipla ==
    ContagemMultiplaDoZero =>
        /\ _obter_produtos_comuns # {}
        /\ Len(contagens_ciclicas) = Cardinality(_obter_produtos_comuns)
        /\ \A codigo \in _obter_produtos_comuns :
               Cardinality({i \in DOMAIN contagens_ciclicas :
                               contagens_ciclicas[i].codigo = codigo}) = 1
        /\ calcular_acuracidade.acuracidade_percentual = calcular_acuracidade_inicial
        /\ calcular_acuracidade_inicial =
               Frac(100 * Cardinality({codigo \in _obter_produtos_comuns :
                                          estoque_sistema[codigo].quantidade
                                              = estoque_fisico[codigo]}),
                    Cardinality(_obter_produtos_comuns))

\* Two common products, one of them divergent: two events, accuracy 50.
C19_Witness ==
    /\ ContagemMultiplaDoZero
    /\ Len(contagens_ciclicas) = 2
    /\ Len(divergencias) = 1
    /\ calcular_acuracidade.acuracidade_percentual = <<50, 1>>
    /\ calcular_acuracidade_inicial = <<50, 1>>

====
